---- MODULE Spec2Model ----
(***************************************************************************)
(* Model of software/utilities/force_analysis/free_body.py: the Haptick    *)
(* (geometry-derived) and Calibrated (table-derived) wrench mappers.       *)
(*                                                                         *)
(* Numbers.  The program computes in float64.  Here                        *)
(*   - the geometry (angles, joint positions, unit directions, moments) is *)
(*     computed in fixed point: angles in milliradians, every other real   *)
(*     in thousandths (SCALE), with division and square root rounded;      *)
(*   - np.linalg.inv and every product with caller data (@, *, unary -)    *)
(*     are computed in the prime field Z/FieldP, where inv is an exact     *)
(*     two-sided inverse, so identities between a matrix and its inverse   *)
(*     are decided exactly instead of "within tolerance".                  *)
(* Arrays are records [err, shape, data]; data is nested sequences, row    *)
(* major, 1-based.  A non-empty err is the exception an expression raised, *)
(* and every numpy operation propagates it.                                *)
(***************************************************************************)
EXTENDS Integers, Sequences, FiniteSets, TLC

VARIABLES inst, supplied, last, threads

vars == <<inst, supplied, last, threads>>

(* ------------------------------ bounds --------------------------------- *)

MaxRadius == 1      \* ring radii range over -1 .. MaxRadius length units
MaxHeight == 1      \* heights range over -1 .. MaxHeight
MaxBatch  == 2      \* batches hold 1 .. MaxBatch samples
MaxLen    == 7      \* 1-D strut-force arguments hold 0 .. MaxLen scalars

(* ------------------------- number representation ----------------------- *)

SCALE  == 1000      \* fixed point: one unit of a real is SCALE
FieldP == 46337     \* prime; FieldP * FieldP < 2^31

Abs(x) == IF x < 0 THEN -x ELSE x

\* a / b rounded to the nearest integer, half away from zero (b # 0)
RoundDiv(a, b) ==
    LET q == (2 * Abs(a) + Abs(b)) \div (2 * Abs(b))
    IN  IF (a >= 0) = (b > 0) THEN q ELSE -q

\* product of two fixed-point reals
FMul(a, b) == RoundDiv(a * b, SCALE)

RECURSIVE SqrtBetween(_, _, _)
SqrtBetween(n, lo, hi) ==
    IF lo >= hi THEN lo
    ELSE LET mid == (lo + hi + 1) \div 2
         IN  IF mid * mid <= n THEN SqrtBetween(n, mid, hi)
                               ELSE SqrtBetween(n, lo, mid - 1)

\* floor of the square root of n >= 0
ISqrt(n) == SqrtBetween(n, 0, 46340)

PI_MRAD     == 3142     \* np.pi in milliradians
HALFPI_MRAD == 1571
TWOPI_MRAD  == 6283

\* cos on [0, pi/2], argument in milliradians, value in thousandths:
\* 1 - y/2 (1 - y/12 (1 - y/30 (1 - y/56))) with y = r^2
CosQuadrant(r) ==
    LET y  == RoundDiv(r * r, SCALE)
        h3 == SCALE - RoundDiv(y, 56)
        h2 == SCALE - RoundDiv(y * h3, 30 * SCALE)
        h1 == SCALE - RoundDiv(y * h2, 12 * SCALE)
    IN  SCALE - RoundDiv(y * h1, 2 * SCALE)

\* np.cos, np.sin of an angle in milliradians
Cos(x) ==
    LET r0 == x % TWOPI_MRAD
        r  == IF r0 > PI_MRAD THEN TWOPI_MRAD - r0 ELSE r0
    IN  IF r > HALFPI_MRAD THEN -CosQuadrant(PI_MRAD - r) ELSE CosQuadrant(r)

Sin(x) == Cos(x - HALFPI_MRAD)

\* arithmetic of Z/FieldP
FAdd(a, b) == (a + b) % FieldP
FSub(a, b) == (a - b) % FieldP
FProd(a, b) == ((a % FieldP) * (b % FieldP)) % FieldP
FNeg(a) == (-a) % FieldP

RECURSIVE FPow(_, _)
FPow(a, e) ==
    IF e = 0 THEN 1
    ELSE LET h == FPow(a, e \div 2)
             s == FProd(h, h)
         IN  IF e % 2 = 1 THEN FProd(s, a) ELSE s

\* 1 / a in Z/FieldP (a # 0)
FInv(a) == FPow(a, FieldP - 2)

(* -------------------------------- arrays ------------------------------- *)

NoErr == ""

\* the elements of nested sequences of the given shape, each evaluated once
\* (an array holds values, not the expressions that produced them)
RECURSIVE Values(_, _)
Values(data, shape) ==
    IF shape = << >> THEN data
    ELSE [i \in 1..shape[1] |-> Values(data[i], Tail(shape))] \o << >>

Arr(shape, data) == [err |-> NoErr, shape |-> shape, data |-> Values(data, shape)]
Raise(e) == [err |-> e, shape |-> << >>, data |-> << >>]
NoArr == Raise("unset")

Vec(v) == Arr(<<Len(v)>>, v)
Mat(rows, r, c) == Arr(<<r, c>>, rows)

\* np.atleast_2d
atleast_2d(a) ==
    IF a.err # NoErr THEN a
    ELSE IF Len(a.shape) = 1 THEN Mat(<<a.data>>, 1, a.shape[1])
    ELSE a

\* a.T of a 2-D array
Transpose(a) ==
    IF a.err # NoErr THEN a
    ELSE LET r == a.shape[1]
             c == a.shape[2]
         IN  Mat([j \in 1..c |-> [i \in 1..r |-> a.data[i][j]]], c, r)

\* np.hstack((a, b)): 1-D arrays are joined end to end, 2-D arrays column-wise
hstack(a, b) ==
    IF a.err # NoErr THEN a
    ELSE IF b.err # NoErr THEN b
    ELSE IF Len(a.shape) = 1 /\ Len(b.shape) = 1
         THEN Vec(a.data \o b.data)
    ELSE IF Len(a.shape) = 2 /\ Len(b.shape) = 2 /\ a.shape[1] = b.shape[1]
         THEN Mat([i \in 1..a.shape[1] |-> a.data[i] \o b.data[i]],
                  a.shape[1], a.shape[2] + b.shape[2])
    ELSE Raise("ValueError")

\* np.vstack((a, b)) of two 2-D arrays
vstack(a, b) ==
    IF a.err # NoErr THEN a
    ELSE IF b.err # NoErr THEN b
    ELSE IF a.shape[2] = b.shape[2]
         THEN Mat(a.data \o b.data, a.shape[1] + b.shape[1], a.shape[2])
    ELSE Raise("ValueError")

\* unary minus on caller data
Neg(a) ==
    IF a.err # NoErr THEN a
    ELSE Mat([i \in 1..a.shape[1] |-> [j \in 1..a.shape[2] |-> FNeg(a.data[i][j])]],
             a.shape[1], a.shape[2])

RECURSIVE DotFrom(_, _, _, _, _)
DotFrom(a, b, i, j, k) ==
    IF k > a.shape[2] THEN 0
    ELSE FAdd(FProd(a.data[i][k], b.data[k][j]), DotFrom(a, b, i, j, k + 1))

\* mutant of matmul: no shape check, absent entries of b count as 0
matmul_unchecked(a, b) ==
    IF a.err # NoErr THEN a
    ELSE IF b.err # NoErr THEN b
    ELSE Mat([i \in 1..a.shape[1] |-> [j \in 1..b.shape[2] |->
                DotFrom([a EXCEPT !.shape = <<a.shape[1],
                            IF b.shape[1] < a.shape[2] THEN b.shape[1] ELSE a.shape[2]>>],
                        b, i, j, 1)]],
             a.shape[1], b.shape[2])

\* a @ b of two 2-D arrays
matmul(a, b) ==
    IF a.err # NoErr THEN a
    ELSE IF b.err # NoErr THEN b
    ELSE IF a.shape[2] # b.shape[1] THEN Raise("ValueError")
    ELSE Mat([i \in 1..a.shape[1] |-> [j \in 1..b.shape[2] |-> DotFrom(a, b, i, j, 1)]],
             a.shape[1], b.shape[2])

\* a[lo:hi, ...] of a 2-D array (python bounds lo, hi; rows lo+1 .. hi here)
RowSlice(a, lo, hi) ==
    IF a.err # NoErr THEN a
    ELSE LET h == IF hi < a.shape[1] THEN hi ELSE a.shape[1]
             l == IF lo < h THEN lo ELSE h
         IN  Mat([i \in 1..(h - l) |-> a.data[l + i]], h - l, a.shape[2])

\* np.roll(a, shift, axis=1) of a 2-D array
roll(a, shift) ==
    LET n == a.shape[2]
    IN  Mat([i \in 1..a.shape[1] |->
               [j \in 1..n |-> a.data[i][((j - 1 - shift) % n) + 1]]],
            a.shape[1], n)

\* np.dstack((a, b)) of two 2-D arrays of one shape
dstack(a, b) ==
    Arr(<<a.shape[1], a.shape[2], 2>>,
        [i \in 1..a.shape[1] |-> [j \in 1..a.shape[2] |-> <<a.data[i][j], b.data[i][j]>>]])

\* a[..., k] of a 3-D array (python index k)
LastAxis(a, k) ==
    Mat([i \in 1..a.shape[1] |-> [j \in 1..a.shape[2] |-> a.data[i][j][k + 1]]],
        a.shape[1], a.shape[2])

(* ------------------------------ np.linalg ------------------------------ *)

Identity(n) == Mat([i \in 1..n |-> [j \in 1..n |-> IF i = j THEN 1 ELSE 0]], n, n)

\* Gauss-Jordan elimination of the n x 2n rows A from column c on;
\* << >> when a column has no pivot (the matrix is singular)
RECURSIVE Eliminate(_, _, _)
Eliminate(A, n, c) ==
    IF c > n THEN A
    ELSE LET cand == {r \in c..n : A[r][c] # 0}
         IN  IF cand = {} THEN << >>
             ELSE LET p    == CHOOSE r \in cand : \A q \in cand : r <= q
                      sw   == [r \in 1..n |-> IF r = c THEN A[p]
                                              ELSE IF r = p THEN A[c] ELSE A[r]]
                      iv   == FInv(sw[c][c])
                      prow == Values([j \in 1..(2 * n) |-> FProd(sw[c][j], iv)], <<2 * n>>)
                      nxt  == [r \in 1..n |->
                                 IF r = c THEN prow
                                 ELSE [j \in 1..(2 * n) |->
                                         FSub(sw[r][j], FProd(sw[r][c], prow[j]))]]
                  IN  Eliminate(Values(nxt, <<n, 2 * n>>), n, c + 1)

\* np.linalg.inv of a square 2-D array; LinAlgError when it is singular
inv(a) ==
    IF a.err # NoErr THEN a
    ELSE LET n   == a.shape[1]
             aug == [i \in 1..n |-> [j \in 1..(2 * n) |->
                        IF j <= n THEN a.data[i][j] % FieldP
                        ELSE IF j - n = i THEN 1 ELSE 0]]
             red == Eliminate(Values(aug, <<n, 2 * n>>), n, 1)
         IN  IF red = << >> THEN Raise("LinAlgError")
             ELSE Mat([i \in 1..n |-> [j \in 1..n |-> red[i][n + j]]], n, n)

\* np.linalg.norm(a, axis=0) of a 2-D array: one length per column
norm(a) ==
    Values([j \in 1..a.shape[2] |->
               ISqrt(a.data[1][j] * a.data[1][j] + a.data[2][j] * a.data[2][j]
                     + a.data[3][j] * a.data[3][j])], <<a.shape[2]>>)

\* np.cross(a, b, axis=0) of two 3 x n arrays
cross(a, b) ==
    LET n == a.shape[2]
    IN  Mat(<< [j \in 1..n |-> FMul(a.data[2][j], b.data[3][j]) - FMul(a.data[3][j], b.data[2][j])],
               [j \in 1..n |-> FMul(a.data[3][j], b.data[1][j]) - FMul(a.data[1][j], b.data[3][j])],
               [j \in 1..n |-> FMul(a.data[1][j], b.data[2][j]) - FMul(a.data[2][j], b.data[1][j])] >>,
            3, n)

(* ------------------------------- Haptick ------------------------------- *)

\* np.linspace(0, 2.0 * np.pi, 3, endpoint = False), in milliradians
TRIANGLE == <<0, 2094, 4189>>

DEG60_MRAD == 1047      \* np.deg2rad(60.0)

\* Haptick._joint_positions(angles, radius, z): rows x, y, z
_joint_positions(angles, radius, z) ==
    Mat(<< [i \in 1..Len(angles) |-> radius * Cos(angles[i])],
           [i \in 1..Len(angles) |-> radius * Sin(angles[i])],
           [i \in 1..Len(angles) |-> z * SCALE] >>,
        3, Len(angles))

\* top_angles[::2] = TRIANGLE - half, top_angles[1::2] = TRIANGLE + half
PairAngles(base, half) ==
    Values([i \in 1..6 |-> IF i % 2 = 1 THEN base[(i + 1) \div 2] - half
                                        ELSE base[i \div 2] + half], <<6>>)

\* 0.5 * separation / radius, in milliradians (radius # 0)
HalfAngle(separation, radius) == RoundDiv(SCALE * separation, 2 * radius)

top_angles(self) ==
    PairAngles(TRIANGLE, HalfAngle(self.top_separation, self.top_radius))

bottom_angles(self) ==
    PairAngles([k \in 1..3 |-> TRIANGLE[k] - DEG60_MRAD],
               HalfAngle(self.bottom_separation, self.bottom_radius))

top_joints(self) == _joint_positions(top_angles(self), self.top_radius, self.height)

bottom_joints(self) == _joint_positions(bottom_angles(self), self.bottom_radius, 0)

\* mutant of Trusses: the bottom joints rolled the other way
Trusses_rolled_forward(self) == dstack(top_joints(self), roll(bottom_joints(self), 1))

\* self.trusses = np.dstack((top_joints, np.roll(bottom_joints, -1, axis=1)))
Trusses(self) == dstack(top_joints(self), roll(bottom_joints(self), -1))

\* mutant of UnitForces: trusses[..., 1] - trusses[..., 0]
UnitForces_reversed(trusses) ==
    LET a == LastAxis(trusses, 0)
        b == LastAxis(trusses, 1)
        d == Mat([i \in 1..3 |-> [j \in 1..6 |-> b.data[i][j] - a.data[i][j]]], 3, 6).data
        n == norm(Mat(d, 3, 6))
    IN  Mat([i \in 1..3 |-> [j \in 1..6 |-> RoundDiv(d[i][j] * SCALE, n[j])]], 3, 6)

\* self._unit_forces = trusses[..., 0] - trusses[..., 1], then /= its norm
UnitForces(trusses) ==
    LET a == LastAxis(trusses, 0)
        b == LastAxis(trusses, 1)
        d == Mat([i \in 1..3 |-> [j \in 1..6 |-> a.data[i][j] - b.data[i][j]]], 3, 6).data
        n == norm(Mat(d, 3, 6))
    IN  Mat([i \in 1..3 |-> [j \in 1..6 |-> RoundDiv(d[i][j] * SCALE, n[j])]], 3, 6)

\* a Haptick whose __init__ has not run
NewHaptick ==
    [class |-> "Haptick", status |-> "uninitialized", err |-> NoErr,
     top_radius |-> 0, top_separation |-> 0, bottom_radius |-> 0,
     bottom_separation |-> 0, height |-> 0,
     trusses |-> NoArr, _unit_forces |-> NoArr,
     _plucker |-> NoArr, _inverse_plucker |-> NoArr]

\* Haptick._init_trusses: python numbers divided by a zero radius raise
\* ZeroDivisionError; np.linalg.inv of a singular matrix raises LinAlgError
_init_trusses(self) ==
    IF self.top_radius = 0 \/ self.bottom_radius = 0
    THEN [self EXCEPT !.status = "failed", !.err = "ZeroDivisionError"]
    ELSE LET trusses == Trusses(self)
             unit    == UnitForces(trusses)
             moments == cross(LastAxis(trusses, 0), unit)
             plucker == vstack(unit, moments)
             inverse == inv(plucker)
             set     == [self EXCEPT !.trusses = trusses, !._unit_forces = unit,
                                     !._plucker = plucker]
         IN  IF inverse.err # NoErr
             THEN [set EXCEPT !.status = "failed", !.err = inverse.err]
             ELSE [set EXCEPT !.status = "ready", !._inverse_plucker = inverse]

\* Haptick.__init__
Haptick_init(top_radius, top_separation, bottom_radius, bottom_separation, height) ==
    _init_trusses([NewHaptick EXCEPT
                    !.top_radius = top_radius, !.top_separation = top_separation,
                    !.bottom_radius = bottom_radius,
                    !.bottom_separation = bottom_separation, !.height = height])

\* a[..., np.newaxis] and a[np.newaxis, ...] of a 2-D array
NewAxisLast(a) ==
    IF a.err # NoErr THEN a
    ELSE Arr(<<a.shape[1], a.shape[2], 1>>,
             [i \in 1..a.shape[1] |-> [j \in 1..a.shape[2] |-> <<a.data[i][j]>>]])

NewAxisFirst(a) ==
    IF a.err # NoErr THEN a
    ELSE Arr(<<1, a.shape[1], a.shape[2]>>, <<a.data>>)

Max(a, b) == IF a >= b THEN a ELSE b

\* a * b of two 3-D arrays, with numpy's broadcasting of axes of length 1
BroadcastMul(a, b) ==
    IF a.err # NoErr THEN a
    ELSE IF b.err # NoErr THEN b
    ELSE IF \E d \in 1..3 : a.shape[d] # b.shape[d] /\ a.shape[d] # 1 /\ b.shape[d] # 1
         THEN Raise("ValueError")
    ELSE LET at(x, d, i) == IF x.shape[d] = 1 THEN 1 ELSE i
             n(d) == IF a.shape[d] = 1 THEN b.shape[d]
                     ELSE IF b.shape[d] = 1 THEN a.shape[d]
                     ELSE Max(a.shape[d], b.shape[d])
         IN  Arr(<<n(1), n(2), n(3)>>,
                 [i \in 1..n(1) |-> [j \in 1..n(2) |-> [k \in 1..n(3) |->
                     FProd(a.data[at(a, 1, i)][at(a, 2, j)][at(a, 3, k)],
                           b.data[at(b, 1, i)][at(b, 2, j)][at(b, 3, k)])]]])

\* what a call hands back: the exception raised, or the returned arrays
Returned(arrays) == [err |-> NoErr, ret |-> arrays]
Raised(e) == [err |-> e, ret |-> << >>]

\* np.reshape(a, (r, c)) of a 2-D array
Reshape(a, r, c) ==
    IF a.err # NoErr THEN a
    ELSE Mat([i \in 1..r |-> [j \in 1..c |->
                a.data[(((i - 1) * c + j - 1) \div a.shape[2]) + 1]
                      [(((i - 1) * c + j - 1) % a.shape[2]) + 1]]], r, c)

\* mutant of truss_force_magnitudes: the stacked wrenches reshaped to (6, N)
\* instead of transposed
truss_force_magnitudes_reshaped(obj, applied_force, applied_torque) ==
    LET w == atleast_2d(hstack(applied_force, applied_torque))
    IN  matmul(obj._inverse_plucker,
               Neg(IF w.err # NoErr THEN w ELSE Reshape(w, w.shape[2], w.shape[1])))

\* Haptick.truss_force_magnitudes
truss_force_magnitudes(obj, applied_force, applied_torque) ==
    matmul(obj._inverse_plucker,
           Neg(Transpose(atleast_2d(hstack(applied_force, applied_torque)))))

\* mutant of truss_force_components: the magnitudes taken sample-major
truss_force_components_sample_major(obj, applied_force, applied_torque) ==
    LET magnitudes == truss_force_magnitudes(obj, applied_force, applied_torque)
    IN  BroadcastMul(NewAxisLast(obj._unit_forces), NewAxisFirst(Transpose(magnitudes)))

\* line 17: self._unit_forces[..., np.newaxis] * magnitudes[np.newaxis, ...]
scaled_unit_forces(obj, magnitudes) ==
    BroadcastMul(NewAxisLast(obj._unit_forces), NewAxisFirst(magnitudes))

\* Haptick.truss_force_components
truss_force_components(obj, applied_force, applied_torque) ==
    LET magnitudes == truss_force_magnitudes(obj, applied_force, applied_torque)
    IN  scaled_unit_forces(obj, magnitudes)

\* mutant of applied: the product is not negated
applied_unnegated(obj, magnitudes) ==
    LET forces_torques == matmul(obj._plucker, Transpose(atleast_2d(magnitudes)))
    IN  IF forces_torques.err # NoErr THEN Raised(forces_torques.err)
        ELSE Returned(<< RowSlice(forces_torques, 0, 3),
                         RowSlice(forces_torques, 3, forces_torques.shape[1]) >>)

\* line 23: forces_torques = -(self._plucker @ np.atleast_2d(...).T)
forces_torques_of(obj, magnitudes) ==
    Neg(matmul(obj._plucker, Transpose(atleast_2d(magnitudes))))

\* line 24: return forces_torques[:3, ...], forces_torques[3:, ...]
split_forces_torques(forces_torques) ==
    IF forces_torques.err # NoErr THEN Raised(forces_torques.err)
    ELSE Returned(<< RowSlice(forces_torques, 0, 3),
                     RowSlice(forces_torques, 3, forces_torques.shape[1]) >>)

\* Haptick.applied and Calibrated.applied (the same two lines)
applied(obj, magnitudes) == split_forces_torques(forces_torques_of(obj, magnitudes))

(* ------------------------------ Calibrated ----------------------------- *)

\* the literal of Calibrated.__init__, in units of 1e-8
CalibrationTable ==
    Mat(<< <<  1489,   277,  553,  39872,  25977, -36115 >>,
           <<   644, -1257,  521,  -1757,  46422,  31319 >>,
           <<  -766,   940,  410, -28830,  16850, -27656 >>,
           <<   752,  1002,  566, -38165, -22721,  28496 >>,
           <<  -440, -1120,  366,   1450, -35193, -28223 >>,
           <<  -903,    64,  287,  26744, -15331,  20936 >> >>, 6, 6)

NewCalibrated ==
    [class |-> "Calibrated", status |-> "uninitialized", err |-> NoErr,
     _plucker |-> NoArr, _inverse_plucker |-> NoArr]

\* mutant of Calibrated_init: the first argument is taken as the table
Calibrated_init_from_args(args) ==
    LET inverse == Neg(Neg(args[1]))
        plucker == inv(inverse)
    IN  IF plucker.err # NoErr
        THEN [NewCalibrated EXCEPT !.status = "failed", !.err = plucker.err,
                                   !._inverse_plucker = inverse]
        ELSE [NewCalibrated EXCEPT !.status = "ready", !._inverse_plucker = inverse,
                                   !._plucker = plucker]

\* Calibrated.__init__(*args, **kwargs): the arguments are not read
Calibrated_init(args) ==
    LET table   == [i \in 1..6 |-> [j \in 1..6 |-> CalibrationTable.data[i][j] % FieldP]]
        inverse == Mat(table, 6, 6)
        plucker == inv(inverse)
    IN  IF plucker.err # NoErr
        THEN [NewCalibrated EXCEPT !.status = "failed", !.err = plucker.err,
                                   !._inverse_plucker = inverse]
        ELSE [NewCalibrated EXCEPT !.status = "ready", !._inverse_plucker = inverse,
                                   !._plucker = plucker]

\* the methods each class defines
Methods(class) ==
    IF class = "Haptick"
    THEN {"truss_force_components", "truss_force_magnitudes", "applied"}
    ELSE {"applied"}

(* ------------------------------- callers ------------------------------- *)

\* sample wrenches (force, torque) and strut-force 6-vectors
Wrenches ==
    << << <<0, 0, -2>>, <<0, 0, 0>> >>,
       << <<1, -1, 3>>, <<0, 2, -1>> >> >>

StrutSamples ==
    << <<1, 0, 0, 2, -1, 3>>,
       <<0, 5, -2, 0, 1, 1>> >>

Cyc(seq, i) == seq[((i - 1) % Len(seq)) + 1]

\* one wrench as two 1-D arrays, n wrenches as two (n, 3) arrays
SingleWrench(s) == << Vec(Wrenches[s][1]), Vec(Wrenches[s][2]) >>

BatchWrench(s, n) ==
    << Mat([k \in 1..n |-> Cyc(Wrenches, s + k - 1)[1]], n, 3),
       Mat([k \in 1..n |-> Cyc(Wrenches, s + k - 1)[2]], n, 3) >>

\* the (force, torque) arguments callers pass: choice <<s, 0>> is sample s
\* alone, <<s, n>> the batch of n samples from s on
WrenchChoices == (1..Len(Wrenches)) \X (0..MaxBatch)

WrenchArg(ch) == IF ch[2] = 0 THEN SingleWrench(ch[1]) ELSE BatchWrench(ch[1], ch[2])

\* a 1-D array of len scalars, n strut-force vectors as an (n, 6) array
StrutVec(s, len) == Vec([i \in 1..len |-> Cyc(StrutSamples[s], i)])

StrutBatch(s, n) == Mat([k \in 1..n |-> Cyc(StrutSamples, s + k - 1)], n, 6)

\* the strut-force arguments callers pass: choice <<s, 0, len>> is the first
\* len scalars of sample s, <<s, n, 6>> the batch of n samples from s on
StrutChoices ==
    ({1} \X {0} \X (0..MaxLen))
    \cup ((1..Len(StrutSamples)) \X (0..MaxBatch) \X {6})

StrutArg(ch) == IF ch[2] = 0 THEN StrutVec(ch[1], ch[3]) ELSE StrutBatch(ch[1], ch[2])

Radii   == {-1} \cup (0..MaxRadius)
Seps    == {0, 1}            \* joint-pair separations, in length units
Heights == {-1} \cup (0..MaxHeight)

\* matrices a caller may hand to Calibrated(...)
SuppliedMatrices == {CalibrationTable, Identity(6)}

NoCall == [op |-> "none", args |-> << >>, err |-> NoErr, ret |-> << >>,
           chain |-> "", wrench |-> << >>]

Call(op, args, res) ==
    [op |-> op, args |-> args, err |-> res.err, ret |-> res.ret,
     chain |-> "", wrench |-> << >>]

\* obj.name(...): AttributeError when the class has no such method
Invoke(obj, name, res) ==
    IF name \in Methods(obj.class) THEN res ELSE Raised("AttributeError")

AsResult(a) == IF a.err # NoErr THEN Raised(a.err) ELSE Returned(<<a>>)

(* ---------------------------- state machine ---------------------------- *)

NoObject == [class |-> "none", status |-> "uninitialized", err |-> NoErr]

\* the threads that call the methods of the one instance
Threads == {1, 2}

\* a thread outside any call; in a call, pc is the source line it is about to
\* run, tmp the local it has computed (magnitudes or forces_torques)
Idle == [pc |-> "idle", op |-> "none", args |-> << >>, tmp |-> NoArr,
         err |-> NoErr, ret |-> << >>]

Init ==
    /\ inst = NoObject
    /\ supplied = NoArr
    /\ last = NoCall
    /\ threads = [t \in Threads |-> Idle]

\* Haptick(top_radius, top_separation, bottom_radius, bottom_separation, height)
Construct(tr, ts, br, bs, h) ==
    /\ inst = NoObject
    /\ inst' = Haptick_init(tr, ts, br, bs, h)
    /\ UNCHANGED <<supplied, last, threads>>

\* Calibrated(m)
ConstructCalibrated(m) ==
    /\ inst = NoObject
    /\ inst' = Calibrated_init(<<m>>)
    /\ supplied' = m
    /\ UNCHANGED <<last, threads>>

\* inst.truss_force_magnitudes(force, torque)
CallMagnitudes(w) ==
    /\ inst.status = "ready"
    /\ last' = Call("truss_force_magnitudes", w,
                    Invoke(inst, "truss_force_magnitudes",
                           AsResult(truss_force_magnitudes(inst, w[1], w[2]))))
    /\ UNCHANGED <<inst, supplied, threads>>

\* inst.truss_force_components(force, torque)
CallComponents(w) ==
    /\ inst.status = "ready"
    /\ last' = Call("truss_force_components", w,
                    Invoke(inst, "truss_force_components",
                           AsResult(truss_force_components(inst, w[1], w[2]))))
    /\ UNCHANGED <<inst, supplied, threads>>

\* inst.applied(x)
CallApplied(x) ==
    /\ inst.status = "ready"
    /\ last' = Call("applied", <<x>>, applied(inst, x))
    /\ UNCHANGED <<inst, supplied, threads>>

\* m = inst.truss_force_magnitudes(force, torque), then inst.applied(m)
\* (chain = "direct") or inst.applied(m.T) as in __main__ (chain = "transposed")
CallAppliedChained(transposed) ==
    /\ inst.status = "ready"
    /\ last.op = "truss_force_magnitudes"
    /\ last.err = NoErr
    /\ LET x == IF transposed THEN Transpose(last.ret[1]) ELSE last.ret[1]
       IN  last' = [Call("applied", <<x>>, applied(inst, x)) EXCEPT
                      !.chain = IF transposed THEN "transposed" ELSE "direct",
                      !.wrench = last.args]
    /\ UNCHANGED <<inst, supplied, threads>>

Next ==
    \/ \E tr \in Radii, ts \in Seps, br \in Radii, bs \in Seps, h \in Heights :
          Construct(tr, ts, br, bs, h)
    \/ \E m \in SuppliedMatrices : ConstructCalibrated(m)
    \/ \E ch \in WrenchChoices : CallMagnitudes(WrenchArg(ch))
    \/ \E ch \in WrenchChoices : CallComponents(WrenchArg(ch))
    \/ \E ch \in StrutChoices : CallApplied(StrutArg(ch))
    \/ \E t \in BOOLEAN : CallAppliedChained(t)

Spec == Init /\ [][Next]_vars

(* ---------------- concurrent callers of one instance ------------------- *)

\* the calls the threads make: <<method, argument choice>>
ThreadCalls ==
    { <<"truss_force_components", <<1, 0>> >>,
      <<"truss_force_magnitudes", <<1, 2>> >>,
      <<"applied", <<1, 0, 6>> >>,
      <<"applied", <<2, 0, 5>> >> }

ThreadArgs(c) == IF c[1] = "applied" THEN <<StrutArg(c[2])>> ELSE WrenchArg(c[2])

FirstLine(op) ==
    IF op = "truss_force_components" THEN "line16"
    ELSE IF op = "truss_force_magnitudes" THEN "line20"
    ELSE "line23"

Return(th, res) == [th EXCEPT !.pc = "returned", !.err = res.err, !.ret = res.ret]

\* thread t calls inst.op(args): AttributeError when the class lacks the method
Begin(t, c) ==
    /\ inst.status = "ready"
    /\ threads[t].pc \in {"idle", "returned"}
    /\ LET th == [Idle EXCEPT !.op = c[1], !.args = ThreadArgs(c)]
       IN  threads' = [threads EXCEPT ![t] =
                          IF c[1] \in Methods(inst.class)
                          THEN [th EXCEPT !.pc = FirstLine(c[1])]
                          ELSE Return(th, Raised("AttributeError"))]
    /\ UNCHANGED <<inst, supplied, last>>

\* line 16 (the call of truss_force_magnitudes) and line 20
RunMagnitudes(t) ==
    /\ threads[t].pc \in {"line16", "line20"}
    /\ LET th == threads[t]
           m  == truss_force_magnitudes(inst, th.args[1], th.args[2])
       IN  threads' = [threads EXCEPT ![t] =
                          IF m.err # NoErr \/ th.pc = "line20" THEN Return(th, AsResult(m))
                          ELSE [th EXCEPT !.pc = "line17", !.tmp = m]]
    /\ UNCHANGED <<inst, supplied, last>>

\* line 17
RunScale(t) ==
    /\ threads[t].pc = "line17"
    /\ threads' = [threads EXCEPT ![t] =
                      Return(threads[t], AsResult(scaled_unit_forces(inst, threads[t].tmp)))]
    /\ UNCHANGED <<inst, supplied, last>>

\* mutant of RunProduct: the sign is applied to self._plucker in place
RunProduct_in_place(t) ==
    /\ threads[t].pc = "line23"
    /\ LET th == threads[t]
           ft == matmul(inst._plucker, Transpose(atleast_2d(th.args[1])))
       IN  threads' = [threads EXCEPT ![t] =
                          IF ft.err # NoErr THEN Return(th, Raised(ft.err))
                          ELSE [th EXCEPT !.pc = "line24", !.tmp = Neg(ft)]]
    /\ inst' = [inst EXCEPT !._plucker = Neg(inst._plucker)]
    /\ UNCHANGED <<supplied, last>>

\* line 23 (line 71 of Calibrated)
RunProduct(t) ==
    /\ threads[t].pc = "line23"
    /\ LET th == threads[t]
           ft == forces_torques_of(inst, th.args[1])
       IN  threads' = [threads EXCEPT ![t] =
                          IF ft.err # NoErr THEN Return(th, Raised(ft.err))
                          ELSE [th EXCEPT !.pc = "line24", !.tmp = ft]]
    /\ UNCHANGED <<inst, supplied, last>>

\* line 24 (line 72 of Calibrated)
RunSplit(t) ==
    /\ threads[t].pc = "line24"
    /\ threads' = [threads EXCEPT ![t] =
                      Return(threads[t], split_forces_torques(threads[t].tmp))]
    /\ UNCHANGED <<inst, supplied, last>>

NextThreads ==
    \/ \E tr \in Radii, ts \in Seps, br \in Radii, bs \in Seps, h \in Heights :
          Construct(tr, ts, br, bs, h)
    \/ \E m \in SuppliedMatrices : ConstructCalibrated(m)
    \/ \E t \in Threads, c \in ThreadCalls : Begin(t, c)
    \/ \E t \in Threads : RunMagnitudes(t)
    \/ \E t \in Threads : RunScale(t)
    \/ \E t \in Threads : RunProduct(t)
    \/ \E t \in Threads : RunSplit(t)

SpecThreads == Init /\ [][NextThreads]_vars

(* ------------------------------- claims -------------------------------- *)

\* the spec's error kinds, as the exceptions numpy raises for them
ValidationError == "ValueError"
NonInvertibleGeometryError == "LinAlgError"

Residue(v) == [i \in 1..Len(v) |-> v[i] % FieldP]

Column(a, k) == [i \in 1..a.shape[1] |-> a.data[i][k]]

Is1D(a) == a.err = NoErr /\ Len(a.shape) = 1
Is2D(a) == a.err = NoErr /\ Len(a.shape) = 2

\* the number of samples a call argument holds, and its k-th sample
Samples(a) == IF Is1D(a) THEN 1 ELSE a.shape[1]
Sample(a, k) == IF Is1D(a) THEN a.data ELSE a.data[k]

\* ret = (force, torque) holds, column by column, the wrenches of w = (f, t)
SameWrench(ret, w) ==
    /\ Len(ret) = 2
    /\ ret[1].shape = <<3, Samples(w[1])>>
    /\ ret[2].shape = <<3, Samples(w[2])>>
    /\ \A k \in 1..Samples(w[1]) :
          /\ Column(ret[1], k) = Residue(Sample(w[1], k))
          /\ Column(ret[2], k) = Residue(Sample(w[2], k))

C2_BatchEquivalence ==
    /\ (inst.class = "Haptick" /\ last.op = "truss_force_magnitudes"
            /\ Is2D(last.args[1]))
          => /\ last.err = NoErr
             /\ last.ret[1].shape = <<6, Samples(last.args[1])>>
             /\ \A k \in 1..Samples(last.args[1]) :
                   LET one == truss_force_magnitudes(inst, Vec(Sample(last.args[1], k)),
                                                     Vec(Sample(last.args[2], k)))
                   IN  one.err = NoErr /\ Column(last.ret[1], k) = Column(one, 1)
    /\ (last.op = "applied" /\ last.chain = "" /\ Is2D(last.args[1])
            /\ last.args[1].shape[2] = 6)
          => /\ last.err = NoErr
             /\ \A k \in 1..Samples(last.args[1]) :
                   LET one == applied(inst, Vec(Sample(last.args[1], k)))
                   IN  /\ one.err = NoErr
                       /\ Column(last.ret[1], k) = Column(one.ret[1], 1)
                       /\ Column(last.ret[2], k) = Column(one.ret[2], 1)

C2_Witness ==
    /\ inst.class = "Haptick"
    /\ last.op = "truss_force_magnitudes" /\ last.err = NoErr
    /\ Is2D(last.args[1]) /\ Samples(last.args[1]) = 2
    /\ Column(last.ret[1], 1) # Column(last.ret[1], 2)

\* C3: the vector strutForceComponents returns for strut i of sample k is
\* strut i's unit direction scaled by the i-th scalar of inverse on sample k
C3_Components ==
    (inst.class = "Haptick" /\ last.op = "truss_force_components")
        => /\ last.err = NoErr
           /\ LET m == truss_force_magnitudes(inst, last.args[1], last.args[2])
                  n == Samples(last.args[1])
              IN  /\ last.ret[1].shape = <<3, 6, n>>
                  /\ \A c \in 1..3, i \in 1..6, k \in 1..n :
                        last.ret[1].data[c][i][k]
                            = FProd(inst._unit_forces.data[c][i], m.data[i][k])

C3_Witness ==
    /\ inst.class = "Haptick"
    /\ last.op = "truss_force_components" /\ last.err = NoErr
    /\ Samples(last.args[1]) = 2
    /\ \E c \in 1..3, i \in 1..6 : last.ret[1].data[c][i][2] # 0

\* C4 as stated: a negative height or radius makes construction fail with
\* ValidationError before any matrix is assembled
C4_NegativeRejected ==
    (inst.class = "Haptick" /\ inst.status # "uninitialized"
        /\ (inst.height < 0 \/ inst.top_radius < 0 \/ inst.bottom_radius < 0))
        => (inst.status = "failed" /\ inst.err = ValidationError
            /\ inst._plucker = NoArr)

\* C5 as stated: a zero radius makes construction fail with
\* NonInvertibleGeometryError
C5_ZeroRadiusNonInvertible ==
    (inst.class = "Haptick" /\ inst.status # "uninitialized"
        /\ (inst.top_radius = 0 \/ inst.bottom_radius = 0))
        => (inst.status = "failed" /\ inst.err = NonInvertibleGeometryError)

\* C6: forward on a 1-D strut-force argument whose length is not 6 raises
\* the shape error, returns nothing, and leaves the instance as it was
C6_WrongLengthRejected ==
    [][(last'.op = "applied" /\ Is1D(last'.args[1]) /\ last'.args[1].shape[1] # 6)
          => (last'.err = ValidationError /\ last'.ret = << >> /\ inst' = inst)]_vars

C6_Witness ==
    /\ last.op = "applied" /\ Is1D(last.args[1]) /\ last.args[1].shape[1] = 5
    /\ last.err = ValidationError

\* what forward(x) must be for the inverse-mapping matrix M: M . -(force; torque) = x
ForwardOf(M, x, ret) ==
    /\ Len(ret) = 2
    /\ matmul(M, Neg(vstack(ret[1], ret[2]))) = Neg(Neg(Transpose(atleast_2d(x))))

Alone(obj, th) ==
    IF th.op \notin Methods(obj.class) THEN Raised("AttributeError")
    ELSE IF th.op = "truss_force_components"
         THEN AsResult(truss_force_components(obj, th.args[1], th.args[2]))
    ELSE IF th.op = "truss_force_magnitudes"
         THEN AsResult(truss_force_magnitudes(obj, th.args[1], th.args[2]))
    ELSE applied(obj, th.args[1])

\* C8: once construction has completed no step of any call, in any
\* interleaving of the threads, changes the instance (joint positions, unit
\* directions, mapping matrix, inverse), and every call returns what it
\* returns when run alone on the instance as constructed
C8_ReadOnly ==
    [][inst.status = "ready"
          => /\ inst' = inst
             /\ \A t \in Threads :
                   threads'[t].pc = "returned"
                      => /\ threads'[t].err = Alone(inst, threads'[t]).err
                         /\ threads'[t].ret = Alone(inst, threads'[t]).ret]_vars

\* one thread has returned from applied while the other is between the two
\* lines of truss_force_components
C8_Witness ==
    /\ inst.class = "Haptick" /\ inst.status = "ready"
    /\ threads[1].pc = "returned" /\ threads[1].op = "applied" /\ threads[1].err = NoErr
    /\ threads[2].pc = "line17"

\* the normalized vector from joint a to joint b of strut i: (b - a) / |b - a|
Normalized(a, b, i) ==
    LET d == [c \in 1..3 |-> b.data[c][i] - a.data[c][i]]
        n == ISqrt(d[1] * d[1] + d[2] * d[2] + d[3] * d[3])
    IN  [c \in 1..3 |-> RoundDiv(d[c] * SCALE, n)]

\* C9 as stated: each unit direction points from the strut's top joint to its
\* bottom joint
C9_TopToBottom ==
    (inst.class = "Haptick" /\ inst._unit_forces.err = NoErr)
        => \A i \in 1..6 :
              Column(inst._unit_forces, i)
                  = Normalized(LastAxis(inst.trusses, 0), LastAxis(inst.trusses, 1), i)

\* C9 amended: each unit direction is the normalized vector from the strut's
\* bottom joint to its top joint (top position minus bottom position)
C9_BottomToTop ==
    (inst.class = "Haptick" /\ inst._unit_forces.err = NoErr)
        => /\ inst._unit_forces.shape = <<3, 6>>
           /\ \A i \in 1..6 :
                 Column(inst._unit_forces, i)
                     = Normalized(LastAxis(inst.trusses, 1), LastAxis(inst.trusses, 0), i)

C9_Witness ==
    /\ inst.class = "Haptick" /\ inst.status = "ready"
    /\ inst.height > 0 /\ inst.top_radius > 0 /\ inst.bottom_radius > 0
    /\ \A i \in 1..6 : inst._unit_forces.data[3][i] > 0

\* C10: strut i pairs top joint i with bottom joint (i+1) mod 6, six struts
\* in all; top joints have z = height and bottom joints z = 0
C10_Pairing ==
    (inst.class = "Haptick" /\ inst.trusses.err = NoErr)
        => /\ inst.trusses.shape = <<3, 6, 2>>
           /\ \A i \in 0..5, c \in 1..3 :
                 /\ inst.trusses.data[c][i + 1][1] = top_joints(inst).data[c][i + 1]
                 /\ inst.trusses.data[c][i + 1][2]
                        = bottom_joints(inst).data[c][((i + 1) % 6) + 1]
           /\ \A i \in 1..6 :
                 /\ inst.trusses.data[3][i][1] = inst.height * SCALE
                 /\ inst.trusses.data[3][i][2] = 0

C10_Witness ==
    /\ inst.class = "Haptick" /\ inst.status = "ready"
    /\ inst.bottom_separation > 0
    /\ \A i \in 1..6, j \in 1..6 :
          i # j => Column(bottom_joints(inst), i) # Column(bottom_joints(inst), j)

====
